---- MODULE Spec2Model ----
(***************************************************************************)
(* A model of the cameloff FSCK index (package db): composite keys packed  *)
(* over an ordered byte-keyed store (goleveldb), the batched multi-index   *)
(* update performed by Place, and the queries derived from the index.      *)
(*                                                                         *)
(* Keys and values are byte strings, modelled as sequences of byte values. *)
(* The store orders keys bytewise (leveldb's default comparer), a range    *)
(* iterator reads a snapshot taken when it is created, and a batch write   *)
(* applies its operations in order, atomically.  Store reads (Has, Get,    *)
(* iterators) are modelled as succeeding, except the scan of Parents under  *)
(* StreamAllParentPaths as it runs; the batch write may fail.              *)
(***************************************************************************)
EXTENDS Integers, Sequences, FiniteSets, TLC

----------------------------------------------------------------------------
(* Bounds of the model *)

\* Place/PlaceMIME calls made in one behaviour of Spec
MaxCalls == 3
\* length of a dependency list handed to Place
MaxDeps == 2
\* the same, where locations and tags vary (SpecTags)
MaxTagDeps == 1
\* Place/PlaceMIME calls made in one behaviour of SpecTags
MaxTagCalls == 2
\* the same, for the concurrent calls and the call before them (SpecConc)
MaxConcDeps == 1
\* Place calls made before the concurrent ones (SpecConc)
MaxBefore == 1
\* PlaceMIME calls made beside the concurrent ones (SpecConc)
MaxMIME == 1
\* Place calls made after the concurrent ones have returned (SpecHeal)
MaxAfter == 2
\* Place/PlaceMIME calls made before and during a streaming call (SpecStream)
MaxStreamCalls == 2
\* Place calls made in one behaviour of SpecRange
MaxRangeCalls == 2

----------------------------------------------------------------------------
(* Byte strings *)

\* '|', the field separator written by pack
Pipe == 124

\* prefixes used in leveldb
found == <<102, 111, 117, 110, 100>>
missing == <<109, 105, 115, 115, 105, 110, 103>>
parent == <<112, 97, 114, 101, 110, 116>>
last == <<108, 97, 115, 116>>
camliType == <<116, 121, 112, 101>>
mimeType == <<109, 105, 109, 101>>

\* bounds for iterators
start == <<0>>
limit == <<255>>

\* the empty string, also the nil value of a Put
Empty == << >>

\* inputs: refs "a", "b", "ab"; locations "/a", "/b"; type tags "", "n", "i";
\* MIME types "j"
Refs == {<<97>>, <<98>>, <<97, 98>>}
Locations == {<<47, 97>>, <<47, 98>>}
CamliTypes == {Empty, <<110>>, <<105>>}
MIMETypes == {<<106>>}

RECURSIVE SeqsUpTo(_, _)
SeqsUpTo(S, n) ==
    IF n = 0 THEN {Empty}
    ELSE LET shorter == SeqsUpTo(S, n - 1)
         IN  shorter \cup {Append(s, x) : s \in shorter, x \in S}

DepLists == SeqsUpTo(Refs, MaxDeps)

\* pack(prefix, fields...): the prefix, then '|' and the field, for each field
RECURSIVE pack(_, _)
pack(prefix, fields) ==
    IF fields = << >> THEN prefix
    ELSE pack(prefix \o <<Pipe>> \o Head(fields), Tail(fields))

\* strings.Split(s, "|"): the fields between separators, at least one
RECURSIVE unpackFrom(_, _, _)
unpackFrom(bts, done, cur) ==
    IF bts = << >> THEN Append(done, cur)
    ELSE IF Head(bts) = Pipe THEN unpackFrom(Tail(bts), Append(done, cur), << >>)
    ELSE unpackFrom(Tail(bts), done, Append(cur, Head(bts)))

unpack(bts) == unpackFrom(bts, << >>, << >>)

\* bytes.Compare, the order of the store's keys: -1, 0 or 1
RECURSIVE Compare(_, _)
Compare(a, b) ==
    IF a = << >> THEN (IF b = << >> THEN 0 ELSE -1)
    ELSE IF b = << >> THEN 1
    ELSE IF Head(a) < Head(b) THEN -1
    ELSE IF Head(a) > Head(b) THEN 1
    ELSE Compare(Tail(a), Tail(b))

----------------------------------------------------------------------------
(* The ordered store: a function from key to value *)

EmptyDB == [k \in {} |-> Empty]

Has(d, key) == key \in DOMAIN d

Put(d, key, value) == [k \in DOMAIN d \cup {key} |-> IF k = key THEN value ELSE d[k]]

Delete(d, key) == [k \in DOMAIN d \ {key} |-> d[k]]

\* the keys of a set in the store's order
RECURSIVE SortKeys(_)
SortKeys(S) ==
    IF S = {} THEN << >>
    ELSE LET m == CHOOSE k \in S : \A j \in S : Compare(k, j) <= 0
         IN  <<m>> \o SortKeys(S \ {m})

\* NewIterator yielding the key equal to Limit as well
NewIteratorInclusive(d, Start, Limit) ==
    SortKeys({k \in DOMAIN d : Compare(Start, k) <= 0 /\ Compare(k, Limit) <= 0})

\* the keys an iterator over [Start, Limit) yields, in order
NewIterator(d, Start, Limit) ==
    SortKeys({k \in DOMAIN d : Compare(Start, k) <= 0 /\ Compare(k, Limit) < 0})

\* the keys an iterator over the whole store yields
NewIteratorAll(d) == SortKeys(DOMAIN d)

\* batch records
BatchPut(key, value) == [del |-> FALSE, key |-> key, value |-> value]
BatchDelete(key) == [del |-> TRUE, key |-> key, value |-> Empty]

\* Write applies the records of a batch in order
RECURSIVE Write(_, _)
Write(d, b) ==
    IF b = << >> THEN d
    ELSE LET r == Head(b)
         IN  Write(IF r.del THEN Delete(d, r.key) ELSE Put(d, r.key, r.value), Tail(b))

----------------------------------------------------------------------------
(* Place: the batch it builds *)

\* HeadOps with the location packed into the key of the found record
HeadOpsLocationInKey(ref, location, ct) ==
    <<BatchPut(pack(found, <<ref, location>>), Empty),
      BatchPut(pack(last, << >>), pack(location, << >>))>>
    \o (IF ct # Empty THEN <<BatchPut(pack(camliType, <<ct, ref>>), Empty)>> ELSE << >>)

\* HeadOps with the ref, not the location, put under the last pointer
HeadOpsLastRef(ref, location, ct) ==
    <<BatchPut(pack(found, <<ref>>), pack(location, << >>)),
      BatchPut(pack(last, << >>), pack(ref, << >>))>>
    \o (IF ct # Empty THEN <<BatchPut(pack(camliType, <<ct, ref>>), Empty)>> ELSE << >>)

\* the found record, the last pointer and the optional type record
HeadOps(ref, location, ct) ==
    <<BatchPut(pack(found, <<ref>>), pack(location, << >>)),
      BatchPut(pack(last, << >>), pack(location, << >>))>>
    \o (IF ct # Empty THEN <<BatchPut(pack(camliType, <<ct, ref>>), Empty)>> ELSE << >>)

\* DepOps with the two refs swapped in the keys
DepOpsSwapped(d, ref, dep) ==
    <<BatchPut(pack(parent, <<ref, dep>>), Empty)>>
    \o (IF ~Has(d, pack(found, <<dep>>))
        THEN <<BatchPut(pack(missing, <<ref, dep>>), Empty)>>
        ELSE << >>)

\* one round of the loop over dependencies: the parent edge, and the missing
\* record when the store, as read now, has no found record of dep
DepOps(d, ref, dep) ==
    <<BatchPut(pack(parent, <<dep, ref>>), Empty)>>
    \o (IF ~Has(d, pack(found, <<dep>>))
        THEN <<BatchPut(pack(missing, <<dep, ref>>), Empty)>>
        ELSE << >>)

RECURSIVE AllDepOps(_, _, _)
AllDepOps(d, ref, dependencies) ==
    IF dependencies = << >> THEN << >>
    ELSE DepOps(d, ref, Head(dependencies)) \o AllDepOps(d, ref, Tail(dependencies))

\* CleanupOps scanning the edges of ref instead of its missing records
CleanupOpsParent(d, ref) ==
    LET it == NewIterator(d, pack(parent, <<ref, start>>), pack(parent, <<ref, limit>>))
    IN  [i \in 1..Len(it) |-> BatchDelete(it[i])]

\* CleanupOps scanning the missing records of every ref
CleanupOpsAll(d, ref) ==
    LET it == NewIterator(d, pack(missing, <<start>>), pack(missing, <<limit>>))
    IN  [i \in 1..Len(it) |-> BatchDelete(it[i])]

\* a Delete for every key of the range missing|ref|*
CleanupOps(d, ref) ==
    LET it == NewIterator(d, pack(missing, <<ref, start>>), pack(missing, <<ref, limit>>))
    IN  [i \in 1..Len(it) |-> BatchDelete(it[i])]

\* the batch of a Place call that runs with no other writer in between
PlaceBatch(d, ref, location, ct, dependencies) ==
    HeadOps(ref, location, ct) \o AllDepOps(d, ref, dependencies) \o CleanupOps(d, ref)

----------------------------------------------------------------------------
(* Queries, as functions of the store they read *)

Last(d) == IF Has(d, pack(last, << >>)) THEN d[pack(last, << >>)] ELSE Empty

\* the field at (0-based) position refPos of every key of the range, in key order
streamBlobs(d, refPos, Start, Limit) ==
    LET it == NewIterator(d, Start, Limit)
    IN  [i \in 1..Len(it) |-> unpack(it[i])[refPos + 1]]

Missing(d) == streamBlobs(d, 1, pack(missing, <<start>>), pack(missing, <<limit>>))

\* List without the branch for the empty type tag
ListOneRange(d, ct) ==
    streamBlobs(d, 2, pack(camliType, <<ct, start>>), pack(camliType, <<ct, limit>>))

List(d, ct) ==
    IF ct # Empty
    THEN streamBlobs(d, 2, pack(camliType, <<ct, start>>), pack(camliType, <<ct, limit>>))
    ELSE streamBlobs(d, 2, pack(camliType, <<start>>), pack(camliType, <<limit>>))

ListMIME(d, mt) ==
    streamBlobs(d, 2, pack(mimeType, <<mt, start>>), pack(mimeType, <<mt, limit>>))

\* Parents returning the field of the key that holds ref itself
ParentsOwnField(d, ref) ==
    LET it == NewIterator(d, pack(parent, <<ref, start>>), pack(parent, <<ref, limit>>))
    IN  [i \in 1..Len(it) |-> unpack(it[i])[2]]

Parents(d, ref) ==
    LET it == NewIterator(d, pack(parent, <<ref, start>>), pack(parent, <<ref, limit>>))
    IN  [i \in 1..Len(it) |-> unpack(it[i])[3]]

\* a Go map read: the zero value for an absent key
MapGet(m, k) == IF k \in DOMAIN m THEN m[k] ELSE 0

MapInc(m, k) == [x \in DOMAIN m \cup {k} |-> IF x = k THEN MapGet(m, k) + 1 ELSE m[x]]

ZeroStats ==
    [Blobs |-> 0, Links |-> 0, Missing |-> 0, Unknown |-> 0,
     CamliTypes |-> [k \in {} |-> 0], MIMETypes |-> [k \in {} |-> 0]]

\* StatsKey without the case for the last pointer
StatsKeyNoLastCase(s, key) ==
    LET parts == unpack(key)
    IN  IF parts[1] = found THEN [s EXCEPT !.Blobs = @ + 1]
        ELSE IF parts[1] = parent THEN [s EXCEPT !.Links = @ + 1]
        ELSE IF parts[1] = missing THEN [s EXCEPT !.Missing = @ + 1]
        ELSE IF parts[1] = camliType THEN [s EXCEPT !.CamliTypes = MapInc(@, parts[2])]
        ELSE IF parts[1] = mimeType THEN [s EXCEPT !.MIMETypes = MapInc(@, parts[2])]
        ELSE [s EXCEPT !.Unknown = @ + 1]

\* the switch on the leading field of one key
StatsKey(s, key) ==
    LET parts == unpack(key)
    IN  IF parts[1] = last THEN s
        ELSE IF parts[1] = found THEN [s EXCEPT !.Blobs = @ + 1]
        ELSE IF parts[1] = parent THEN [s EXCEPT !.Links = @ + 1]
        ELSE IF parts[1] = missing THEN [s EXCEPT !.Missing = @ + 1]
        ELSE IF parts[1] = camliType THEN [s EXCEPT !.CamliTypes = MapInc(@, parts[2])]
        ELSE IF parts[1] = mimeType THEN [s EXCEPT !.MIMETypes = MapInc(@, parts[2])]
        ELSE [s EXCEPT !.Unknown = @ + 1]

RECURSIVE StatsScan(_, _)
StatsScan(s, it) == IF it = << >> THEN s ELSE StatsScan(StatsKey(s, Head(it)), Tail(it))

Stats(d) == StatsScan(ZeroStats, NewIteratorAll(d))

\* the deepest recursion followed: a chain of more parents than there are refs
\* visits a ref twice and, on an unchanging store, never ends
MaxDepth == Cardinality(Refs)

\* the paths sent to ch, in order, and whether the call returns; a call that
\* does not return has sent (at least) the paths listed
RECURSIVE streamAllParentPaths(_, _, _, _)
RECURSIVE rangeParents(_, _, _, _)
streamAllParentPaths(d, path, ref, fuel) ==
    LET parents == Parents(d, ref)
    IN  IF Len(parents) = 0 THEN [sent |-> <<path>>, returned |-> TRUE]
        ELSE IF fuel = 0 THEN [sent |-> << >>, returned |-> FALSE]
        ELSE rangeParents(d, path, parents, fuel)

\* the loop over parents: stops at the first recursive call that does not return
rangeParents(d, path, parents, fuel) ==
    IF parents = << >> THEN [sent |-> << >>, returned |-> TRUE]
    ELSE LET first == streamAllParentPaths(d, Append(path, Head(parents)),
                                           Head(parents), fuel - 1)
         IN  IF ~first.returned THEN first
             ELSE LET rest == rangeParents(d, path, Tail(parents), fuel)
                  IN  [sent |-> first.sent \o rest.sent, returned |-> rest.returned]

\* StreamAllParentPaths giving up at the deepest recursion followed, and returning
StreamAllParentPathsDepthGuard(d, ref) ==
    [streamAllParentPaths(d, << >>, ref, MaxDepth) EXCEPT !.returned = TRUE]

\* StreamAllParentPaths starting from a path that already holds ref
StreamAllParentPathsFromRef(d, ref) == streamAllParentPaths(d, <<ref>>, ref, MaxDepth)

StreamAllParentPaths(d, ref) == streamAllParentPaths(d, << >>, ref, MaxDepth)

----------------------------------------------------------------------------------------------------------------------------------------
(* The index used by one caller at a time *)

VARIABLES
    db,         \* the store
    calls,      \* Place and PlaceMIME calls made so far
    placed,     \* history: ref -> the locations of its committed Places, in order
    declared,   \* history: <<dep, ref>> for every dep a committed Place of ref listed
    tagged,     \* history: <<ct, ref>> for every committed Place of ref with type ct
    mimed,      \* history: <<mime, ref>> for every PlaceMIME
    recent,     \* history: <<ref, location>> of the latest committed Place, or << >>
    out,        \* the query whose result the caller holds, or NoOut
    pc,         \* concurrent Place calls: where each caller is in Place
    args,       \* concurrent Place calls: the arguments of each caller
    todo,       \* concurrent Place calls: the dependencies still to loop over
    batch,      \* concurrent Place calls: the batch b built so far
    err,        \* concurrent Place calls: what Place returned
    db0,        \* history: the store when the concurrent calls began
    call,       \* streaming call: the query and the range it scans, or NoCall
    ch,         \* streaming call: the channel, "none", "open" or "closed"
    it,         \* streaming call: the iterator of the producer
    spc,        \* streaming call: where the producer is in streamBlobs
    cons,       \* streaming call: what the consumer of the channel does
    rcv,        \* streaming call: the items the consumer has received, in order
    scanned,    \* history: the store when the iterator was created
    stack,      \* StreamAllParentPaths: the frames of streamAllParentPaths, outermost first
    heap,       \* StreamAllParentPaths: the backing arrays of the path slices
    ret,        \* StreamAllParentPaths: what the frame that just returned has returned
    reply,      \* StreamAllParentPaths: what the call returned to its caller
    sink,       \* StreamAllParentPaths: what the receiver of the path channel does
    got,        \* StreamAllParentPaths: the slices the receiver holds, in order
    emitted,    \* history: the contents of each path when it was sent
    failed      \* history: Parents scans that have failed

hist == <<placed, declared, tagged, mimed, recent>>
conc == <<pc, args, todo, batch, err, db0>>
strm == <<call, ch, it, spc, cons, rcv, scanned>>
trav == <<stack, heap, ret, reply, sink, got, emitted, failed>>
vars == <<db, calls, placed, declared, tagged, mimed, recent, out, pc, args, todo, batch, err, db0,
          call, ch, it, spc, cons, rcv, scanned,
          stack, heap, ret, reply, sink, got, emitted, failed>>

\* the callers that run Place concurrently
Procs == {1, 2}

NoOut == [op |-> "none"]

NoCall == [op |-> "none"]

\* an iterator: the keys of its snapshot, how many it.Next() has passed, and
\* whether it still holds its snapshot
NoIterator == [keys |-> << >>, pos |-> 0, open |-> FALSE]

Init ==
    /\ db = EmptyDB
    /\ calls = 0
    /\ placed = EmptyDB
    /\ declared = {}
    /\ tagged = {}
    /\ mimed = {}
    /\ recent = << >>
    /\ out = NoOut
    /\ pc = [p \in Procs |-> "idle"]
    /\ args = [p \in Procs |-> << >>]
    /\ todo = [p \in Procs |-> << >>]
    /\ batch = [p \in Procs |-> << >>]
    /\ err = [p \in Procs |-> "none"]
    /\ db0 = EmptyDB
    /\ call = NoCall
    /\ ch = "none"
    /\ it = NoIterator
    /\ spc = "none"
    /\ cons = "none"
    /\ rcv = << >>
    /\ scanned = EmptyDB
    /\ stack = << >>
    /\ heap = << >>
    /\ ret = "none"
    /\ reply = "none"
    /\ sink = "none"
    /\ got = << >>
    /\ emitted = << >>
    /\ failed = 0

Range(s) == {s[i] : i \in 1..Len(s)}

\* what a committed Place adds to the history
Committed(ref, location, ct, dependencies) ==
    /\ placed' = Put(placed, ref,
                     Append(IF ref \in DOMAIN placed THEN placed[ref] ELSE << >>, location))
    /\ declared' = declared \cup {<<dep, ref>> : dep \in Range(dependencies)}
    /\ tagged' = tagged \cup {<<ct, ref>>}
    /\ recent' = <<ref, location>>
    /\ UNCHANGED mimed

PlaceMIME(ref, mime) ==
    /\ out = NoOut
    /\ calls < MaxTagCalls
    /\ calls' = calls + 1
    /\ db' = Put(db, pack(mimeType, <<mime, ref>>), Empty)
    /\ mimed' = mimed \cup {<<mime, ref>>}
    /\ UNCHANGED <<placed, declared, tagged, recent, out, conc, strm, trav>>

Place(ref, location, ct, dependencies) ==
    /\ out = NoOut
    /\ calls' = calls + 1
    /\ db' = Write(db, PlaceBatch(db, ref, location, ct, dependencies))
    /\ Committed(ref, location, ct, dependencies)
    /\ UNCHANGED <<out, conc, strm, trav>>

\* a query reads the store and hands its result to the caller
Query(result) ==
    /\ out = NoOut
    /\ out' = result
    /\ UNCHANGED <<db, calls, hist, conc, strm, trav>>

CallLast == Query([op |-> "Last", val |-> Last(db)])

\* Missing, List and ListMIME with the channel drained by the caller
CallMissing == Query([op |-> "Missing", val |-> Missing(db)])

CallList(ct) == Query([op |-> "List", arg |-> ct, val |-> List(db, ct)])

CallListMIME(mt) == Query([op |-> "ListMIME", arg |-> mt, val |-> ListMIME(db, mt)])

CallStats == Query([op |-> "Stats", val |-> Stats(db)])

CallParents(ref) == Query([op |-> "Parents", arg |-> ref, val |-> Parents(db, ref)])

CallStreamAllParentPaths(ref) ==
    Query([op |-> "StreamAllParentPaths", arg |-> ref, val |-> StreamAllParentPaths(db, ref)])

\* the caller is done with the result it holds
Return ==
    /\ out # NoOut
    /\ out' = NoOut
    /\ UNCHANGED <<db, calls, hist, conc, strm, trav>>

\* the dependency graph: every dependency list, one location, no type tag
Next ==
    \/ \E ref \in Refs, dependencies \in DepLists :
          calls < MaxCalls /\ Place(ref, <<47, 97>>, Empty, dependencies)
    \/ CallMissing
    \/ \E ref \in Refs : CallParents(ref)
    \/ \E ref \in Refs : CallStreamAllParentPaths(ref)
    \/ Return

Spec == Init /\ [][Next]_vars

\* locations, type tags and MIME types: dependency lists of at most one ref
NextTags ==
    \/ \E ref \in Refs, location \in Locations, ct \in CamliTypes,
          dependencies \in SeqsUpTo(Refs, MaxTagDeps) :
          calls < MaxTagCalls /\ Place(ref, location, ct, dependencies)
    \/ \E ref \in Refs, mime \in MIMETypes : PlaceMIME(ref, mime)
    \/ CallLast
    \/ CallStats
    \/ \E ct \in CamliTypes : CallList(ct)
    \/ Return

SpecTags == Init /\ [][NextTags]_vars

\* refs at the edges of the key order: "", "a", "ab" and the single byte 0xFF
RangeRefs == {Empty, <<97>>, <<97, 98>>, <<255>>}

\* the same index, used with those refs
NextRange ==
    \/ \E ref \in RangeRefs, dependencies \in SeqsUpTo(RangeRefs, MaxTagDeps) :
          calls < MaxRangeCalls /\ Place(ref, <<47, 97>>, Empty, dependencies)
    \/ \E ref \in RangeRefs : CallParents(ref)
    \/ Return

SpecRange == Init /\ [][NextRange]_vars

----------------------------------------------------------------------------
(* Two callers in Place at the same time.  A step is one access to the     *)
(* store: an existence read, the creation of the cleanup iterator (which   *)
(* reads a snapshot), the batch write.  Everything before the first        *)
(* existence read touches only the caller's own batch.                     *)

AllIdle == \A p \in Procs : pc[p] = "idle"
AllDone == \A p \in Procs : pc[p] = "done"

\* where a caller goes after a round of the loop over dependencies
AfterDeps(rest) == IF rest = << >> THEN "scan" ELSE "deps"

CallArgs(ref, location, ct, dependencies) ==
    [ref |-> ref, location |-> location, ct |-> ct, dependencies |-> dependencies]

\* both callers enter Place and put the found, last and type records in their batches
Begin(a) ==
    /\ AllIdle
    /\ db0' = db
    /\ args' = a
    /\ batch' = [p \in Procs |-> HeadOps(a[p].ref, a[p].location, a[p].ct)]
    /\ todo' = [p \in Procs |-> a[p].dependencies]
    /\ pc' = [p \in Procs |-> AfterDeps(a[p].dependencies)]
    /\ UNCHANGED <<db, calls, hist, out, err, strm, trav>>

\* one round of the loop over dependencies, with its existence read
DepStep(p) ==
    /\ pc[p] = "deps"
    /\ batch' = [batch EXCEPT ![p] = @ \o DepOps(db, args[p].ref, Head(todo[p]))]
    /\ todo' = [todo EXCEPT ![p] = Tail(@)]
    /\ pc' = [pc EXCEPT ![p] = AfterDeps(Tail(todo[p]))]
    /\ UNCHANGED <<db, calls, hist, out, args, err, db0, strm, trav>>

\* the cleanup scan
ScanStep(p) ==
    /\ pc[p] = "scan"
    /\ batch' = [batch EXCEPT ![p] = @ \o CleanupOps(db, args[p].ref)]
    /\ pc' = [pc EXCEPT ![p] = "write"]
    /\ UNCHANGED <<db, calls, hist, out, args, todo, err, db0, strm, trav>>

\* a write that applies the first record of the batch only
CommitFirstOnly(d, b) == Write(d, SubSeq(b, 1, 1))

\* what a successful d.db.Write(b, nil) leaves in the store
Commit(d, b) == Write(d, b)

\* the batch write succeeds and Place returns nil
WriteStep(p) ==
    /\ pc[p] = "write"
    /\ db' = Commit(db, batch[p])
    /\ Committed(args[p].ref, args[p].location, args[p].ct, args[p].dependencies)
    /\ err' = [err EXCEPT ![p] = "nil"]
    /\ pc' = [pc EXCEPT ![p] = "done"]
    /\ UNCHANGED <<calls, out, args, todo, batch, db0, strm, trav>>

\* the batch write fails and Place returns the store's error
WriteFail(p) ==
    /\ pc[p] = "write"
    /\ err' = [err EXCEPT ![p] = "error"]
    /\ pc' = [pc EXCEPT ![p] = "done"]
    /\ UNCHANGED <<db, calls, hist, out, args, todo, batch, db0, strm, trav>>

\* a Place call made before the concurrent ones, alone
PlaceBefore(ref, location, ct, dependencies) ==
    /\ AllIdle
    /\ calls < MaxBefore
    /\ Place(ref, location, ct, dependencies)

\* a PlaceMIME call made at any time by a third caller
PlaceMIMEBeside(ref, mime) ==
    /\ Cardinality(mimed) < MaxMIME
    /\ db' = Put(db, pack(mimeType, <<mime, ref>>), Empty)
    /\ mimed' = mimed \cup {<<mime, ref>>}
    /\ UNCHANGED <<calls, placed, declared, tagged, recent, out, conc, strm, trav>>

\* the first caller places at "/a" with type "n", the second at "/b" with no type
ConcArgs ==
    {<<a1, a2>> : a1 \in {CallArgs(r, <<47, 97>>, <<110>>, ds) :
                           r \in Refs, ds \in SeqsUpTo(Refs, MaxConcDeps)},
                  a2 \in {CallArgs(r, <<47, 98>>, Empty, ds) :
                           r \in Refs, ds \in SeqsUpTo(Refs, MaxConcDeps)}}

NextConc ==
    \/ \E ref \in Refs, dependencies \in SeqsUpTo(Refs, MaxConcDeps) :
          PlaceBefore(ref, <<47, 97>>, Empty, dependencies)
    \/ \E a \in ConcArgs : Begin(a)
    \/ \E p \in Procs : DepStep(p)
    \/ \E p \in Procs : ScanStep(p)
    \/ \E p \in Procs : WriteStep(p)
    \/ \E p \in Procs : WriteFail(p)
    \/ PlaceMIMEBeside(<<97>>, <<106>>)

SpecConc == Init /\ [][NextConc]_vars

\* a Place call that starts after both concurrent calls have returned, alone
PlaceAfter(ref, location, ct, dependencies) ==
    /\ AllDone
    /\ calls < MaxAfter
    /\ Place(ref, location, ct, dependencies)

\* two callers in Place on an empty index, then Place calls one at a time
NextHeal ==
    \/ \E a \in ConcArgs : Begin(a)
    \/ \E p \in Procs : DepStep(p)
    \/ \E p \in Procs : ScanStep(p)
    \/ \E p \in Procs : WriteStep(p)
    \/ \E ref \in Refs, dependencies \in SeqsUpTo(Refs, MaxConcDeps) :
          PlaceAfter(ref, <<47, 98>>, Empty, dependencies)

SpecHeal == Init /\ [][NextHeal]_vars

----------------------------------------------------------------------------
(* Missing, List and ListMIME as they run: a producer goroutine in          *)
(* streamBlobs and the consumer of the unbuffered channel.  A send on an    *)
(* unbuffered channel completes only together with a receive.              *)

\* the arguments Missing, List and ListMIME hand to streamBlobs
MissingCall ==
    [op |-> "Missing", arg |-> Empty, refPos |-> 1,
     Start |-> pack(missing, <<start>>), Limit |-> pack(missing, <<limit>>)]

ListCall(ct) ==
    [op |-> "List", arg |-> ct, refPos |-> 2,
     Start |-> IF ct # Empty THEN pack(camliType, <<ct, start>>) ELSE pack(camliType, <<start>>),
     Limit |-> IF ct # Empty THEN pack(camliType, <<ct, limit>>) ELSE pack(camliType, <<limit>>)]

ListMIMECall(mt) ==
    [op |-> "ListMIME", arg |-> mt, refPos |-> 2,
     Start |-> pack(mimeType, <<mt, start>>), Limit |-> pack(mimeType, <<mt, limit>>)]

\* ch := make(chan string); go d.streamBlobs(ch, refPos, rng); return ch
CallStream(c) ==
    /\ call = NoCall
    /\ call' = c
    /\ ch' = "open"
    /\ spc' = "iter"
    /\ cons' = "receiving"
    /\ UNCHANGED <<db, calls, hist, out, conc, trav, it, rcv, scanned>>

\* it := d.db.NewIterator(rng, nil)
StreamIter ==
    /\ spc = "iter"
    /\ it' = [keys |-> NewIterator(db, call.Start, call.Limit), pos |-> 0, open |-> TRUE]
    /\ scanned' = db
    /\ spc' = "next"
    /\ UNCHANGED <<db, calls, hist, out, conc, trav, call, ch, cons, rcv>>

\* it.Next() moving two keys on
AdvanceTwo(i) == [i EXCEPT !.pos = @ + 2]

\* it.Next() moving to the following key
Advance(i) == [i EXCEPT !.pos = @ + 1]

\* it.Next() has a following key
HasNext(i) == i.pos < Len(i.keys)

\* for it.Next(): on to the send, or out of the loop into the deferred calls
StreamNext ==
    /\ spc = "next"
    /\ IF HasNext(it)
       THEN it' = Advance(it) /\ spc' = "send"
       ELSE it' = it /\ spc' = "release"
    /\ UNCHANGED <<db, calls, hist, out, conc, trav, call, ch, cons, rcv, scanned>>

\* parts := unpack(it.Key()); parts[refPos]
Item(i, refPos) == unpack(i.keys[i.pos])[refPos + 1]

\* ch <- parts[refPos], together with the receive of the consumer
StreamSend ==
    /\ spc = "send"
    /\ cons = "receiving"
    /\ ch = "open"
    /\ rcv' = Append(rcv, Item(it, call.refPos))
    /\ spc' = "next"
    /\ UNCHANGED <<db, calls, hist, out, conc, trav, call, ch, it, cons, scanned>>

\* defer it.Release(): the later defer runs first
StreamRelease ==
    /\ spc = "release"
    /\ it' = [it EXCEPT !.open = FALSE]
    /\ spc' = "close"
    /\ UNCHANGED <<db, calls, hist, out, conc, trav, call, ch, cons, rcv, scanned>>

\* defer close(ch): closing a closed channel panics
StreamClose ==
    /\ spc = "close"
    /\ ch' = IF ch = "open" THEN "closed" ELSE "panic"
    /\ spc' = "done"
    /\ UNCHANGED <<db, calls, hist, out, conc, trav, call, it, cons, rcv, scanned>>

\* the steps of the producer goroutine
Producer == StreamIter \/ StreamNext \/ StreamSend \/ StreamRelease \/ StreamClose

\* the consumer's receive finds the channel closed: the end of the data
ConsumerEnd ==
    /\ cons = "receiving"
    /\ ch = "closed"
    /\ cons' = "ended"
    /\ UNCHANGED <<db, calls, hist, out, conc, trav, call, ch, it, spc, rcv, scanned>>

\* the consumer stops receiving and drops the channel
ConsumerAbandon ==
    /\ cons = "receiving"
    /\ cons' = "abandoned"
    /\ UNCHANGED <<db, calls, hist, out, conc, trav, call, ch, it, spc, rcv, scanned>>

\* the type tags and dependency lists of the Place calls around a streaming call
StreamTypes == {Empty, <<110>>}

NextStream ==
    \/ \E ref \in Refs, ct \in StreamTypes, dependencies \in SeqsUpTo(Refs, MaxTagDeps) :
          calls < MaxStreamCalls /\ Place(ref, <<47, 97>>, ct, dependencies)
    \/ \E ref \in Refs, mime \in MIMETypes :
          calls < MaxStreamCalls /\ PlaceMIME(ref, mime)
    \/ CallStream(MissingCall)
    \/ \E ct \in StreamTypes : CallStream(ListCall(ct))
    \/ \E mt \in MIMETypes : CallStream(ListMIMECall(mt))
    \/ StreamIter
    \/ StreamNext
    \/ StreamSend
    \/ StreamRelease
    \/ StreamClose
    \/ ConsumerEnd
    \/ ConsumerAbandon

\* a goroutine that can run does run, and a send meets a waiting receive
SpecStream == Init /\ [][NextStream]_vars /\ WF_vars(Producer)

----------------------------------------------------------------------------
(* StreamAllParentPaths as it runs: the frames of the recursion, the path   *)
(* slices with their backing arrays, and the receiver of the path channel.  *)
(* The store does not change while the call runs.                           *)

\* refs "a" to "f"
PathRefs == {<<97>>, <<98>>, <<99>>, <<100>>, <<101>>, <<102>>}

\* the dependency lists each ref may be placed with: a chain from "a" up to
\* "d", which "e" and "f" both depend on, and "e" possibly on itself as well
PathDeps(ref) ==
    IF ref = <<97>> THEN {Empty}
    ELSE IF ref = <<98>> THEN {<<<<97>>>>}
    ELSE IF ref = <<99>> THEN {<<<<98>>>>}
    ELSE IF ref = <<100>> THEN {<<<<99>>>>}
    ELSE IF ref = <<101>> THEN {<<<<100>>>>, <<<<100>>, <<101>>>>}
    ELSE {<<<<100>>>>}

\* the recursion followed: one frame more than an acyclic chain can need
MaxStack == Cardinality(PathRefs) + 1

\* a slice: its backing array (0 for none), its length and its capacity
NilSlice == [arr |-> 0, len |-> 0, cap |-> 0]

\* the elements of a slice
Contents(h, s) == IF s.len = 0 THEN << >> ELSE SubSeq(h[s.arr], 1, s.len)

\* the capacity append gives the new array of a full slice
GrowCap(cap) == IF cap = 0 THEN 1 ELSE 2 * cap

\* append(s, x): in place when the capacity allows, into a new array otherwise
append(h, s, x) ==
    IF s.len < s.cap
    THEN [heap |-> [h EXCEPT ![s.arr][s.len + 1] = x],
          slice |-> [s EXCEPT !.len = @ + 1]]
    ELSE LET newcap == GrowCap(s.cap)
             elems == Append(Contents(h, s), x)
         IN  [heap |-> Append(h, [k \in 1..newcap |->
                                     IF k <= Len(elems) THEN elems[k] ELSE Empty]),
              slice |-> [arr |-> Len(h) + 1, len |-> s.len + 1, cap |-> newcap]]

\* a frame of streamAllParentPaths(path, ref, ch) at its first statement
Frame(path, ref) == [path |-> path, ref |-> ref, parents |-> << >>, i |-> 0, pc |-> "parents"]

Top == stack[Len(stack)]

SetTop(f) == [stack EXCEPT ![Len(stack)] = f]

\* the top frame returns e, to the frame below or to the caller
ReturnFrame(e) ==
    /\ stack' = SubSeq(stack, 1, Len(stack) - 1)
    /\ IF Len(stack) = 1
       THEN reply' = e /\ ret' = "none"
       ELSE reply' = reply /\ ret' = e

\* d.StreamAllParentPaths(ref, ch)
PathsCall(ref) ==
    /\ reply = "none"
    /\ out = NoOut
    /\ stack' = <<Frame(NilSlice, ref)>>
    /\ reply' = "running"
    /\ sink' = "receiving"
    /\ UNCHANGED <<db, calls, hist, out, conc, strm, heap, ret, got, emitted, failed>>

\* parents, err := d.Parents(ref), with err == nil
PathsScan ==
    /\ stack # << >>
    /\ Top.pc = "parents"
    /\ LET parents == Parents(db, Top.ref)
       IN  stack' = SetTop([Top EXCEPT !.parents = parents, !.i = 1,
                                      !.pc = IF Len(parents) = 0 THEN "send" ELSE "range"])
    /\ UNCHANGED <<db, calls, hist, out, conc, strm, heap, ret, reply, sink, got, emitted, failed>>

\* parents, err := d.Parents(ref), with the iterator's error: return err
PathsScanFail ==
    /\ stack # << >>
    /\ Top.pc = "parents"
    /\ failed' = failed + 1
    /\ ReturnFrame("error")
    /\ UNCHANGED <<db, calls, hist, out, conc, strm, heap, sink, got, emitted>>

\* ch <- path, together with the receive; return nil
PathsSend ==
    /\ stack # << >>
    /\ Top.pc = "send"
    /\ sink = "receiving"
    /\ got' = Append(got, Top.path)
    /\ emitted' = Append(emitted, Contents(heap, Top.path))
    /\ ReturnFrame("nil")
    /\ UNCHANGED <<db, calls, hist, out, conc, strm, heap, sink, failed>>

\* for _, parent := range parents: the recursive call on append(path, parent),
\* or return nil after the last parent
PathsRange ==
    /\ stack # << >>
    /\ Top.pc = "range"
    /\ IF Top.i > Len(Top.parents)
       THEN ReturnFrame("nil") /\ heap' = heap
       ELSE /\ Len(stack) < MaxStack
            /\ LET a == append(heap, Top.path, Top.parents[Top.i])
               IN  /\ heap' = a.heap
                   /\ stack' = Append(SetTop([Top EXCEPT !.pc = "wait"]),
                                      Frame(a.slice, Top.parents[Top.i]))
            /\ UNCHANGED <<ret, reply>>
    /\ UNCHANGED <<db, calls, hist, out, conc, strm, sink, got, emitted, failed>>

\* a recursive call whose error is never looked at
ChildFailedIgnored(e) == FALSE

\* err != nil, of the recursive call
ChildFailed(e) == e # "nil"

\* if err := d.streamAllParentPaths(...); err != nil { return err }
PathsAfterCall ==
    /\ stack # << >>
    /\ Top.pc = "wait"
    /\ ret # "none"
    /\ IF ChildFailed(ret)
       THEN ReturnFrame(ret)
       ELSE /\ stack' = SetTop([Top EXCEPT !.i = @ + 1, !.pc = "range"])
            /\ ret' = "none"
            /\ reply' = reply
    /\ UNCHANGED <<db, calls, hist, out, conc, strm, heap, sink, got, emitted, failed>>

\* the receiver stops receiving
SinkStop ==
    /\ sink = "receiving"
    /\ sink' = "stopped"
    /\ UNCHANGED <<db, calls, hist, out, conc, strm, stack, heap, ret, reply, got, emitted, failed>>

\* every ref placed at most once, in any order, before the call
NextPaths ==
    \/ \E ref \in PathRefs : \E dependencies \in PathDeps(ref) :
          /\ reply = "none"
          /\ ref \notin DOMAIN placed
          /\ Place(ref, <<47, 97>>, Empty, dependencies)
    \/ \E ref \in PathRefs : PathsCall(ref)
    \/ PathsScan
    \/ PathsScanFail
    \/ PathsSend
    \/ PathsRange
    \/ PathsAfterCall
    \/ SinkStop

\* a frame whose callee has returned goes on to its next statement
SpecPaths == Init /\ [][NextPaths]_vars /\ WF_vars(PathsAfterCall)

----------------------------------------------------------------------------
(* Vocabulary of the properties *)

\* how often x occurs in a sequence
Count(s, x) == Cardinality({i \in 1..Len(s) : s[i] = x})

IsPlaced(ref) == ref \in DOMAIN placed

\* the refs that a committed Place has declared to depend on dep
Declarers(dep) == {r \in Refs : <<dep, r>> \in declared}

\* the <<dep, ref>> of the missing records in a store
LiveMissing(d) == {e \in Refs \X Refs : Has(d, pack(missing, <<e[1], e[2]>>))}

\* the step is a committed Place of ref
Places(ref) == recent' # << >> /\ recent'[1] = ref /\ placed' # placed

----------------------------------------------------------------------------
(* C1 *)

\* C1: with Place calls executed one at a time, a missing record (dep, ref)
\* exists if and only if ref has declared dep and dep has no found record, and
\* Missing() reports no dep that has a found record.
C1_MissingIffDeclaredAndNotFound ==
    /\ \A dep \in Refs, ref \in Refs :
          Has(db, pack(missing, <<dep, ref>>))
             <=> (<<dep, ref>> \in declared /\ ~Has(db, pack(found, <<dep>>)))
    /\ out.op = "Missing" =>
          \A i \in 1..Len(out.val) : ~Has(db, pack(found, <<out.val[i]>>))

----------------------------------------------------------------------------
(* C2 *)

\* C2: when B has never been placed and no other ref has declared it, a
\* Place(A, loc, ct, [B]) makes Missing() emit B exactly once; the Place of B
\* that follows makes Missing() emit B zero times, and Parents(B) still
\* returns A.
C2_MissingLifecycle ==
    [][\A A \in Refs, B \in Refs :
          /\ (/\ Place(A, <<47, 97>>, Empty, <<B>>)
              /\ ~IsPlaced(B)
              /\ Declarers(B) \subseteq {A})
                => Count(Missing(db'), B) = 1
          /\ (/\ Places(B)
              /\ ~IsPlaced(B)
              /\ Declarers(B) = {A})
                => /\ Count(Missing(db'), B) = 0
                   /\ A \in Range(Parents(db', B))]_vars

----------------------------------------------------------------------------
(* C3 *)

\* the dep fields of the missing records of a store, in the order of their keys
MissingDepsInKeyOrder(d) ==
    LET keys == SortKeys({pack(missing, <<e[1], e[2]>>) : e \in LiveMissing(d)})
    IN  [i \in 1..Len(keys) |-> unpack(keys[i])[2]]

\* C3: Missing() emits the dep field of every live missing record, in key
\* order, once per record, so a dep declared by N refs and not placed is
\* emitted N times; the Place of a dep declared by two or more refs leaves no
\* occurrence of that dep.
C3_MissingFanIn ==
    /\ [](out.op = "Missing" =>
            /\ out.val = MissingDepsInKeyOrder(db)
            /\ \A dep \in Refs :
                  ~IsPlaced(dep) => Count(out.val, dep) = Cardinality(Declarers(dep)))
    /\ [][\A dep \in Refs :
            (Places(dep) /\ ~IsPlaced(dep) /\ Cardinality(Declarers(dep)) >= 2)
               => Count(Missing(db'), dep) = 0]_vars

----------------------------------------------------------------------------
(* C5 *)

\* the keys of the store that are found records of ref
FoundRecords(ref) ==
    {k \in DOMAIN db : LET parts == unpack(k)
                       IN  Len(parts) >= 2 /\ parts[1] = found /\ parts[2] = ref}

\* the location of the latest committed Place of ref
LatestLocation(ref) == placed[ref][Len(placed[ref])]

\* C5: a found record of ref exists iff ref has been placed, there is at most
\* one per ref, and it holds the location of the latest Place of ref; Last()
\* returns the location of the latest Place.
C5_FoundIdempotence ==
    /\ \A ref \in Refs :
          /\ Has(db, pack(found, <<ref>>)) <=> IsPlaced(ref)
          /\ Cardinality(FoundRecords(ref)) = (IF IsPlaced(ref) THEN 1 ELSE 0)
          /\ IsPlaced(ref) => db[pack(found, <<ref>>)] = LatestLocation(ref)
    /\ out.op = "Last" => out.val = (IF recent = << >> THEN Empty ELSE recent[2])
    /\ recent # << >> => recent[2] = LatestLocation(recent[1])

\* a ref placed twice, at different locations, and Last() called after that
C5_Witness ==
    /\ out.op = "Last"
    /\ recent # << >>
    /\ Len(placed[recent[1]]) = 2
    /\ placed[recent[1]][1] # placed[recent[1]][2]
    /\ out.val = placed[recent[1]][2]

----------------------------------------------------------------------------
(* C7 *)

\* s is strictly increasing in the order of the keys
StrictlyIncreasing(s) == \A i \in 1..(Len(s) - 1) : Compare(s[i], s[i + 1]) < 0

\* C7: Parents(x) returns exactly the refs that a committed Place has declared
\* to depend on x, each once, in lexicographic order, whether or not x or
\* they have a found record.
C7_ParentsExact ==
    out.op = "Parents" =>
       /\ Range(out.val) = Declarers(out.arg)
       /\ StrictlyIncreasing(out.val)

\* the chain "a" declares "b", "b" declares "ab", with "ab" itself never
\* placed: Parents("ab") = ["b"]
C7_Witness ==
    /\ out.op = "Parents"
    /\ out.arg = <<97, 98>>
    /\ out.val = <<<<98>>>>
    /\ declared = {<<<<98>>, <<97>>>>, <<<<97, 98>>, <<98>>>>}
    /\ ~IsPlaced(<<97, 98>>)

----------------------------------------------------------------------------
(* C8 *)

\* some ref depends on itself through one or more declared edges
Cyclic ==
    \E s \in SeqsUpTo(Refs, Cardinality(Refs) + 1) :
       /\ Len(s) >= 2
       /\ s[1] = s[Len(s)]
       /\ \A i \in 1..(Len(s) - 1) : <<s[i], s[i + 1]>> \in declared

\* the maximal upward chains of ref: p[1] declares ref, p[i + 1] declares
\* p[i], and nothing declares the last
Chains(ref) ==
    {p \in SeqsUpTo(Refs, Cardinality(Refs)) :
        /\ \A i \in 1..Len(p) : <<(IF i = 1 THEN ref ELSE p[i - 1]), p[i]>> \in declared
        /\ Declarers(IF p = << >> THEN ref ELSE p[Len(p)]) = {}}

\* C8: on an acyclic edge graph StreamAllParentPaths(ref, sink) returns after
\* sending exactly one path for every maximal upward chain of ref, ordered
\* from ref outward; for a ref without parents that is the empty path alone.
C8_AllParentPaths ==
    (out.op = "StreamAllParentPaths" /\ ~Cyclic) =>
       /\ out.val.returned
       /\ Range(out.val.sent) = Chains(out.arg)
       /\ Len(out.val.sent) = Cardinality(Chains(out.arg))
       /\ Declarers(out.arg) = {} => out.val.sent = << << >> >>

\* "ab" is declared by "a" and by "b", and "a" by "b": the paths of "ab" are
\* ["a", "b"] and ["b"]
C8_Witness ==
    /\ out.op = "StreamAllParentPaths"
    /\ out.arg = <<97, 98>>
    /\ declared = {<<<<97, 98>>, <<97>>>>, <<<<97, 98>>, <<98>>>>, <<<<97>>, <<98>>>>}
    /\ out.val.sent = << <<<<97>>, <<98>>>>, <<<<98>>>> >>

----------------------------------------------------------------------------
(* C9 *)

\* the sum of the counts of a histogram
RECURSIVE SumOver(_, _)
SumOver(m, keys) ==
    IF keys = {} THEN 0
    ELSE LET k == CHOOSE x \in keys : TRUE
         IN  m[k] + SumOver(m, keys \ {k})

\* C9: Stats() counts the distinct refs placed in Blobs, the live missing
\* records in Missing, the dependency edges written in Links, the refs placed
\* with type tag t in CamliTypes[t], the refs registered with MIME type m in
\* MIMETypes[m], and the last pointer nowhere.
C9_StatsConsistency ==
    out.op = "Stats" =>
       /\ out.val.Blobs = Cardinality(DOMAIN placed)
       /\ out.val.Missing = Cardinality(LiveMissing(db))
       /\ out.val.Links = Cardinality(declared)
       /\ \A t \in CamliTypes \ {Empty} :
             MapGet(out.val.CamliTypes, t) = Cardinality({r \in Refs : <<t, r>> \in tagged})
       /\ MapGet(out.val.CamliTypes, Empty) = 0
       /\ \A m \in MIMETypes :
             MapGet(out.val.MIMETypes, m) = Cardinality({r \in Refs : <<m, r>> \in mimed})
       /\ out.val.Unknown = 0
       /\ out.val.Blobs + out.val.Links + out.val.Missing + out.val.Unknown
             + SumOver(out.val.CamliTypes, DOMAIN out.val.CamliTypes)
             + SumOver(out.val.MIMETypes, DOMAIN out.val.MIMETypes)
          = Cardinality(DOMAIN db \ {pack(last, << >>)})

\* Place("a", "/a", "n", ["b"]) then Place("b", "/b", "n", nil) then Stats()
C9_Witness ==
    /\ out.op = "Stats"
    /\ placed = (<<97>> :> <<<<47, 97>>>>) @@ (<<98>> :> <<<<47, 98>>>>)
    /\ recent = <<<<98>>, <<47, 98>>>>
    /\ declared = {<<<<98>>, <<97>>>>}
    /\ tagged = {<<<<110>>, <<97>>>>, <<<<110>>, <<98>>>>}
    /\ out.val.Blobs = 2
    /\ out.val.Links = 1
    /\ out.val.Missing = 0
    /\ MapGet(out.val.CamliTypes, <<110>>) = 2

----------------------------------------------------------------------------
(* C4 *)

\* caller p's batch write succeeds in this step
Commits(p) == pc[p] = "write" /\ pc'[p] = "done" /\ err'[p] = "nil"

\* caller p's batch write fails in this step
Fails(p) == pc[p] = "write" /\ pc'[p] = "done" /\ err'[p] # "nil"

\* the keys a batch puts
PutKeys(b) == {b[i].key : i \in {j \in 1..Len(b) : ~b[j].del}}

\* the records every Place call with these arguments writes
OwnKeys(a) ==
    {pack(found, <<a.ref>>), pack(last, << >>)}
    \cup (IF a.ct # Empty THEN {pack(camliType, <<a.ct, a.ref>>)} ELSE {})
    \cup {pack(parent, <<dep, a.ref>>) : dep \in Range(a.dependencies)}

\* C4: the store changes under a Place call only in the step of its batch
\* write, and then by the whole batch at once: found, last, type, parent
\* edges, missing inserts and missing deletions; when the write fails the
\* store is as before and the caller gets the error.
C4_PlaceAtomic ==
    [][/\ \A p \in Procs :
             Commits(p) =>
                /\ db' = Write(db, batch[p])
                /\ OwnKeys(args[p]) \subseteq PutKeys(batch[p])
                /\ OwnKeys(args[p]) \subseteq DOMAIN db'
                /\ db'[pack(found, <<args[p].ref>>)] = args[p].location
                /\ db'[pack(last, << >>)] = args[p].location
       /\ \A p \in Procs :
             Fails(p) => db' = db /\ err'[p] = "error" /\ hist' = hist
       /\ (db' # db /\ ~AllIdle /\ mimed' = mimed) => \E p \in Procs : Commits(p)
      ]_vars

\* the first caller's Place("b", "/a", "n", ["ab"]) has committed its type
\* record, its edge, the missing record of "ab" and the deletion of the missing
\* record of "b"; the second caller's write has failed and left nothing
C4_Witness ==
    /\ AllDone
    /\ err = <<"nil", "error">>
    /\ args[1] = CallArgs(<<98>>, <<47, 97>>, <<110>>, <<<<97, 98>>>>)
    /\ args[2].ref = <<97, 98>>
    /\ Has(db0, pack(missing, <<<<98>>, <<97>>>>))
    /\ ~Has(db, pack(missing, <<<<98>>, <<97>>>>))
    /\ Has(db, pack(missing, <<<<97, 98>>, <<98>>>>))
    /\ Has(db, pack(camliType, <<<<110>>, <<98>>>>))
    /\ ~Has(db, pack(found, <<<<97, 98>>>>))

----------------------------------------------------------------------------
(* C6 *)

\* C6: an edge (dep, ref) committed by a Place call is in the store and stays
\* there, and what Parents(dep) returns only grows, under any interleaving of
\* Place and PlaceMIME calls.
C6_EdgesAppendOnly ==
    [][/\ \A dep \in Refs, ref \in Refs :
             (<<dep, ref>> \in declared \/ Has(db, pack(parent, <<dep, ref>>)))
                => /\ Has(db, pack(parent, <<dep, ref>>))
                   /\ Has(db', pack(parent, <<dep, ref>>))
       /\ db' # db =>
             \A dep \in Refs : Range(Parents(db, dep)) \subseteq Range(Parents(db', dep))
      ]_vars

\* the edge ("b", "a") was there when the two callers began; both ends have
\* been placed again, concurrently, and a PlaceMIME has run beside them
C6_Witness ==
    /\ AllDone
    /\ err = <<"nil", "nil">>
    /\ mimed # {}
    /\ Has(db0, pack(parent, <<<<98>>, <<97>>>>))
    /\ args[1].ref = <<98>>
    /\ args[2].ref = <<97>>
    /\ Parents(db, <<98>>) = <<<<97>>>>

----------------------------------------------------------------------------
(* C10 *)

\* the found, type, parent and missing records of a store
Records(d) ==
    LET keys == {k \in DOMAIN d : unpack(k)[1] \in {found, camliType, parent, missing}}
    IN  [k \in keys |-> d[k]]

\* the store after Place a, then Place b, each run alone
SeqRun(d, a, b) ==
    LET d1 == Write(d, PlaceBatch(d, a.ref, a.location, a.ct, a.dependencies))
    IN  Write(d1, PlaceBatch(d1, b.ref, b.location, b.ct, b.dependencies))

\* both concurrent calls have committed, and they were for different refs
BothCommitted ==
    /\ AllDone
    /\ err = <<"nil", "nil">>
    /\ args[1].ref # args[2].ref

SameAsSomeOrder ==
    \/ Records(db) = Records(SeqRun(db0, args[1], args[2]))
    \/ Records(db) = Records(SeqRun(db0, args[2], args[1]))

\* neither call lists the other's ref as a dependency
Unrelated ==
    /\ args[1].ref \notin Range(args[2].dependencies)
    /\ args[2].ref \notin Range(args[1].dependencies)

\* C10 as claimed: two concurrent Place calls for different refs leave the
\* found, type, parent and missing records of one of the two sequential orders.
C10_AnyTwoRefs == BothCommitted => SameAsSomeOrder

\* C10, amended: two concurrent Place calls for different refs, neither of
\* which lists the other's ref as a dependency, leave the found, type, parent
\* and missing records of one of the two sequential orders.
C10_UnrelatedRefs == (BothCommitted /\ Unrelated) => SameAsSomeOrder

\* Place("b", ..., ["ab"]) and Place("a", ..., ["ab"]) have run concurrently
\* on a store that held a missing record of "b"
C10_Witness ==
    /\ BothCommitted
    /\ Unrelated
    /\ args[1].ref = <<98>>
    /\ args[1].dependencies = <<<<97, 98>>>>
    /\ args[2].ref = <<97>>
    /\ args[2].dependencies = <<<<97, 98>>>>
    /\ LiveMissing(db0) # {}
    /\ Cardinality(LiveMissing(db)) = 2

----------------------------------------------------------------------------
(* C11 *)

\* the refs that a missing record of the store names as the missing dependency
MissingDeps(d) == {e[1] : e \in LiveMissing(d)}

\* a missing record of B beside the found record of B
FalseMissing(d, B) == Has(d, pack(found, <<B>>)) /\ B \in MissingDeps(d)

\* C11: when B has a found record, a Place of B that starts after the
\* concurrent calls have committed leaves no missing record naming B as the
\* missing dependency, whatever the interleaving left behind, and no later
\* Place brings one back.
C11_SelfHealing ==
    [][\A B \in Refs :
          /\ (AllDone /\ Places(B) /\ Has(db, pack(found, <<B>>)))
                => B \notin MissingDeps(db')
          /\ (AllDone /\ calls > 0 /\ Has(db, pack(found, <<B>>)) /\ B \notin MissingDeps(db))
                => B \notin MissingDeps(db')]_vars

\* Place("a", "/a", "n", ["b"]) read the absence of "b" before Place("b", "/b",
\* "", nil) committed, and the scan of the latter came before the commit of
\* the former: missing|b|a was left beside found|b, and the Place of "b" made
\* after both has removed it
C11_Witness ==
    /\ AllDone
    /\ args[1].ref = <<97>>
    /\ args[1].dependencies = <<<<98>>>>
    /\ args[2].ref = <<98>>
    /\ args[2].dependencies = << >>
    /\ pack(missing, <<<<98>>, <<97>>>>) \in PutKeys(batch[1])
    /\ \A i \in 1..Len(batch[2]) : ~batch[2][i].del
    /\ calls = 1
    /\ recent = <<<<98>>, <<47, 98>>>>
    /\ Len(placed[<<98>>]) = 2
    /\ Has(db, pack(found, <<<<98>>>>))
    /\ <<98>> \notin MissingDeps(db)

----------------------------------------------------------------------------
(* C12 *)

----------------------------------------------------------------------------
(* C13 *)

\* what the streaming call is to deliver: the field of every key of its range
\* in the store the iterator was created on, in key order
Expected == streamBlobs(scanned, call.refPos, call.Start, call.Limit)

\* s is the beginning of t
IsPrefix(s, t) == Len(s) <= Len(t) /\ s = SubSeq(t, 1, Len(s))

\* C13: the producer is at most one key ahead of the consumer, and only while
\* it waits in the send; what the consumer has received is the beginning of
\* the range in key order, each key once; a closed channel means the whole
\* range was delivered and the iterator released; the channel is closed once
\* and nothing is received after that; and a consumer that keeps receiving
\* gets to the close.
C13_StreamingProtocol ==
    /\ [](/\ it.pos = Len(rcv) + (IF spc = "send" THEN 1 ELSE 0)
          /\ IsPrefix(rcv, Expected)
          /\ Len(Expected) = Len(it.keys)
          /\ ch = "closed" => (rcv = Expected /\ ~it.open /\ spc = "done")
          /\ ch # "panic")
    /\ [][ch = "closed" => (ch' = "closed" /\ rcv' = rcv)]_vars
    /\ (cons = "receiving") ~> (cons = "abandoned" \/ (ch = "closed" /\ rcv = Expected))

\* Missing() drained to the close on an index where "ab" and "a" are missing:
\* the record of "ab" comes first in key order
C13_Witness ==
    /\ call.op = "Missing"
    /\ cons = "ended"
    /\ ch = "closed"
    /\ rcv = <<<<97, 98>>, <<97>>>>
    /\ ~it.open

----------------------------------------------------------------------------
(* C14 *)

\* the refs that a committed Place has given the type tag t
TaggedWith(t) == {r \in Refs : <<t, r>> \in tagged}

\* the non-empty type tags that committed Places have given to ref
TagsOf(ref) == {t \in CamliTypes \ {Empty} : <<t, ref>> \in tagged}

\* C14: List(t) for a non-empty tag t emits exactly the refs placed with type
\* tag t, each once; List("") emits every ref once for each of its non-empty
\* type tags, so a ref with two tags twice and a ref placed only with the
\* empty tag never.
C14_TypeSetMembership ==
    out.op = "List" =>
       IF out.arg # Empty
       THEN /\ Range(out.val) = TaggedWith(out.arg)
            /\ Len(out.val) = Cardinality(TaggedWith(out.arg))
       ELSE /\ \A r \in Refs : Count(out.val, r) = Cardinality(TagsOf(r))
            /\ Range(out.val) \subseteq Refs

\* "a" placed with tag "n" and again with tag "i": List("") emits "a" twice
C14_Witness ==
    /\ out.op = "List"
    /\ out.arg = Empty
    /\ tagged = {<<<<110>>, <<97>>>>, <<<<105>>, <<97>>>>}
    /\ out.val = <<<<97>>, <<97>>>>

----------------------------------------------------------------------------
(* C15 *)

\* C15: StreamAllParentPaths returns an error exactly when a Parents scan has
\* failed, at whatever depth; once a scan has failed no path is sent any more
\* and the call goes on to return the error.
C15_FailFast ==
    /\ [](/\ reply = "error" => failed > 0
          /\ reply = "nil" => failed = 0)
    /\ [][failed > 0 => got' = got]_vars
    /\ (failed > 0) ~> (reply = "error")

\* from "a" the path through "e" was sent, then the scan of the parents of
\* "f", four calls deep, failed: the path through "f" was never sent
C15_Witness ==
    /\ reply = "error"
    /\ stack = << >>
    /\ {<<<<100>>, <<101>>>>, <<<<100>>, <<102>>>>} \subseteq declared
    /\ emitted = << <<<<98>>, <<99>>, <<100>>, <<101>>>> >>

----------------------------------------------------------------------------
(* C16 *)

\* the refs above the refs of S: those that declared one of them
ParentsOfSet(S) == {r \in Refs : \E dep \in S : <<dep, r>> \in declared}

\* S and everything upward of it
RECURSIVE UpwardClosure(_)
UpwardClosure(S) ==
    LET T == S \cup ParentsOfSet(S)
    IN  IF T = S THEN S ELSE UpwardClosure(T)

\* ref is upward of itself
OnCycle(ref) == ref \in UpwardClosure(ParentsOfSet({ref}))

\* a cycle can be reached upward from ref
CyclicFrom(ref) == \E x \in UpwardClosure({ref}) : OnCycle(x)

\* C16: with no scan failing and the sink receiving every path,
\* StreamAllParentPaths(ref, sink) returns when no cycle can be reached upward
\* from ref, and never returns when one can, a ref that declared itself
\* included.
C16_TerminatesIffAcyclic ==
    out.op = "StreamAllParentPaths" =>
       (out.val.returned <=> ~CyclicFrom(out.arg))

\* Place("a", "/a", "", ["b", "a"]): "a" is a parent of "b" and of itself, and
\* StreamAllParentPaths("b") does not return
C16_Witness ==
    /\ out.op = "StreamAllParentPaths"
    /\ out.arg = <<98>>
    /\ declared = {<<<<98>>, <<97>>>>, <<<<97>>, <<97>>>>}
    /\ ~OnCycle(<<98>>)
    /\ ~out.val.returned

----------------------------------------------------------------------------
(* C17 *)

\* the keys of the scan bounded by prefix|0x00 and prefix|0xFF, for the
\* prefix tag|x
ScanKeys(d, tag, x) ==
    Range(NewIterator(d, pack(tag, <<x, start>>), pack(tag, <<x, limit>>)))

\* the keys of the form tag|x|field in a store
KeysOf(d, tag, x) ==
    {k \in DOMAIN d : LET parts == unpack(k)
                      IN  Len(parts) = 3 /\ parts[1] = tag /\ parts[2] = x}

\* a field the two sentinels bracket: not empty and not beginning with 0xFF
Bracketed(field) == field # Empty /\ field[1] # 255

\* C17 as claimed: for fields without the '|' byte the scan of tag|x returns
\* every key of the form tag|x|field and no other key.
C17_BracketsEveryField ==
    \A tag \in {parent, missing}, x \in RangeRefs :
       ScanKeys(db, tag, x) = KeysOf(db, tag, x)

\* C17, amended: the scan of tag|x returns every key tag|x|field whose field
\* is not empty and does not begin with 0xFF, and no other key; so Parents(x)
\* and the cleanup of Place for x take those records of x and no record of
\* another ref, one that x is a proper prefix of included.
C17_BracketsFields ==
    \A x \in RangeRefs :
       /\ \A tag \in {parent, missing} :
             ScanKeys(db, tag, x) = {k \in KeysOf(db, tag, x) : Bracketed(unpack(k)[3])}
       /\ Range(Parents(db, x))
             = {r \in RangeRefs : Bracketed(r) /\ Has(db, pack(parent, <<x, r>>))}
       /\ {op.key : op \in Range(CleanupOps(db, x))}
             = {pack(missing, <<x, r>>) :
                   r \in {q \in RangeRefs : Bracketed(q) /\ Has(db, pack(missing, <<x, q>>))}}

\* "a" declares "ab" and "ab" declares "a": Parents("a") returns "ab" alone,
\* though the key parent|ab|a lies between the keys of the parent|a| records
C17_Witness ==
    /\ out.op = "Parents"
    /\ out.arg = <<97>>
    /\ out.val = <<<<97, 98>>>>
    /\ Has(db, pack(parent, <<<<97, 98>>, <<97>>>>))

----------------------------------------------------------------------------
(* C18 *)

\* C18: every path the receiver holds reads, at any later time, as it did when
\* it was sent.
C18_PathsIndependent ==
    \A i \in 1..Len(got) : Contents(heap, got[i]) = emitted[i]

----------------------------------------------------------------------------
(* C19 *)

\* C19: under any interleaving of Place and PlaceMIME calls the last pointer
\* is absent iff no Place batch has committed; otherwise it holds the location
\* in the found record of the ref whose batch committed most recently, and
\* Last() returns that location, or the empty string when the pointer is absent.
C19_LastPointer ==
    /\ Has(db, pack(last, << >>)) <=> recent # << >>
    /\ recent = << >> => Last(db) = Empty
    /\ recent # << >> =>
          /\ db[pack(last, << >>)] = recent[2]
          /\ db[pack(last, << >>)] = db[pack(found, <<recent[1]>>)]
          /\ Last(db) = db[pack(found, <<recent[1]>>)]

\* two concurrent Place calls of the same ref, at "/a" and at "/b", and a
\* PlaceMIME beside them: the caller placing at "/a" committed last
C19_Witness ==
    /\ AllDone
    /\ err = <<"nil", "nil">>
    /\ args[1].ref = args[2].ref
    /\ mimed # {}
    /\ placed[args[1].ref][Len(placed[args[1].ref])] = <<47, 97>>
    /\ Len(placed[args[1].ref]) >= 2
    /\ Last(db) = <<47, 97>>

----------------------------------------------------------------------------
(* C20 *)

\* the keys a step removes, adds, and gives another value
Removed == DOMAIN db \ DOMAIN db'
Added == DOMAIN db' \ DOMAIN db
Rewritten == {k \in DOMAIN db \cap DOMAIN db' : db'[k] # db[k]}

\* a record that a Place of ref may add: the found record of ref, a type
\* record of ref, an edge or a missing record of a dependency ref declared
AddedFor(k, ref) ==
    LET parts == unpack(k)
    IN  \/ k = pack(found, <<ref>>)
        \/ Len(parts) = 3 /\ parts[1] = camliType /\ parts[2] # Empty /\ parts[3] = ref
        \/ /\ Len(parts) = 3
           /\ parts[1] \in {parent, missing}
           /\ parts[3] = ref
           /\ <<parts[2], ref>> \in declared'

\* a missing record whose dep field is ref
MissingOf(k, ref) ==
    LET parts == unpack(k)
    IN  Len(parts) = 3 /\ parts[1] = missing /\ parts[2] = ref

\* C20: a committing Place of ref removes only missing records whose dep field
\* is ref, gives a new value only to the found record of ref and to the last
\* pointer, and adds, beside the last pointer, only records of ref: its found
\* record, a type record, and edges and missing records (d, ref) for declared
\* d; every other found, type, mime, parent and missing record stays as it
\* is.  A PlaceMIME adds its one mime record and changes nothing else.
C20_PlaceFrame ==
    [][/\ placed' # placed =>
             LET ref == recent'[1]
             IN  /\ \A k \in Removed : MissingOf(k, ref)
                 /\ \A k \in Rewritten : k \in {pack(found, <<ref>>), pack(last, << >>)}
                 /\ \A k \in Added : k = pack(last, << >>) \/ AddedFor(k, ref)
       /\ mimed' # mimed =>
             /\ Removed = {}
             /\ Rewritten = {}
             /\ \E e \in mimed' : Added \subseteq {pack(mimeType, <<e[1], e[2]>>)}
                                  /\ Has(db', pack(mimeType, <<e[1], e[2]>>))
       /\ (placed' = placed /\ mimed' = mimed) => db' = db
      ]_vars

\* on an index holding found|a, parent|b|a and missing|b|a, Place("b", ...,
\* ["ab"]) and Place("ab", ...) have committed: missing|b|a is gone, the
\* records of "a" are as they were, and missing|ab|b was added and removed
C20_Witness ==
    /\ AllDone
    /\ err = <<"nil", "nil">>
    /\ args[1].ref = <<98>>
    /\ args[1].dependencies = <<<<97, 98>>>>
    /\ args[2].ref = <<97, 98>>
    /\ Has(db0, pack(missing, <<<<98>>, <<97>>>>))
    /\ ~Has(db, pack(missing, <<<<98>>, <<97>>>>))
    /\ Has(db, pack(parent, <<<<98>>, <<97>>>>))
    /\ db[pack(found, <<<<97>>>>)] = db0[pack(found, <<<<97>>>>)]
    /\ pack(missing, <<<<97, 98>>, <<98>>>>) \in PutKeys(batch[1])
    /\ ~Has(db, pack(missing, <<<<97, 98>>, <<98>>>>))
    /\ mimed # {}

====
